---- MODULE Spec2Model ----
(***************************************************************************)
(* The chat request pipeline of imitate.ai: the POST handler of            *)
(* app/api/chat/[chatId]/route.ts with its two later revisions, and the    *)
(* MemoryManager of lib/memory.ts that keeps the key-value history.        *)
(*                                                                         *)
(* Text is a sequence of one-character strings.                            *)
(***************************************************************************)
EXTENDS Integers, Sequences, FiniteSets, TLC

(***************************************************************************)
(* Bounds of the model.                                                    *)
(***************************************************************************)
\* longest raw model output a request receives (characters)
MaxOut == 2
\* longest raw model output given to the extraction alone (characters)
MaxRaw == 4
\* longest seed transcript given to the MemoryManager alone (characters)
MaxSeed == 3
\* requests served one after the other
MaxRequests == 1
\* direct MemoryManager calls in the memory specification
MaxCalls == 3
\* history entries beyond the window of readLatestHistory
MaxExtra == 2
\* length of the texts the similarity detectors compare
MaxText == 3
\* requests that call MemoryManager.getInstance() in one process
MaxCallers == 3
\* newest rows of the message table that vary freely
MaxRows == 2
\* code units of the short texts truncateText is given, and of the tails of
\* the long ones
MaxChars == 3
\* byte budgets tried on the short texts
MaxBudget == 5
\* requests of one user to one persona that are in flight together
MaxInFlight == 2
\* length of the identifiers a CompanionKey is made of
MaxIdent == 3

(***************************************************************************)
(* Characters and text helpers (JavaScript String methods).                *)
(***************************************************************************)
NL == "\n"
SP == " "
COMMA == ","
HYPHEN == "-"

\* the characters the model uses, in increasing code-unit order
CodeOrder ==
    <<NL, SP, COMMA, HYPHEN, "/", "3", "8", ":", "H", "U",
      "a", "b", "c", "d", "e", "f", "i", "l", "m", "n", "r", "s", "t", "u", "v", "w">>

\* rank of a character, for the store's lexicographic tie-break
CharCode(c) == CHOOSE i \in 1..Len(CodeOrder) : CodeOrder[i] = c

\* all texts over alphabet A of length at most n
Texts(A, n) == UNION {[1..k -> A] : k \in 0..n}

IsWhitespace(c) == c = SP \/ c = NL

Reverse(s) == [i \in 1..Len(s) |-> s[Len(s) + 1 - i]]

\* Array.prototype.slice(-n)
SliceLast(s, n) ==
    IF Len(s) <= n THEN s ELSE SubSeq(s, Len(s) - n + 1, Len(s))

\* does d occur in s at position i
MatchAt(s, d, i) ==
    /\ i + Len(d) - 1 <= Len(s)
    /\ \A j \in 1..Len(d) : s[i + j - 1] = d[j]

RECURSIVE SplitFrom(_, _, _, _)
\* pieces of s from position i on, cur being the piece under construction
SplitFrom(s, d, i, cur) ==
    IF i > Len(s) THEN <<cur>>
    ELSE IF MatchAt(s, d, i) THEN <<cur>> \o SplitFrom(s, d, i + Len(d), <<>>)
    ELSE SplitFrom(s, d, i + 1, Append(cur, s[i]))

\* String.prototype.split(d): an empty separator splits into characters
Split(s, d) ==
    IF Len(d) = 0 THEN [i \in 1..Len(s) |-> <<s[i]>>]
    ELSE SplitFrom(s, d, 1, <<>>)

RECURSIVE Join(_, _)
\* Array.prototype.join(d)
Join(parts, d) ==
    IF Len(parts) = 0 THEN <<>>
    ELSE IF Len(parts) = 1 THEN parts[1]
    ELSE LET half == Len(parts) \div 2
         IN Join(SubSeq(parts, 1, half), d) \o d
                \o Join(SubSeq(parts, half + 1, Len(parts)), d)

\* String.prototype.replaceAll(c, "")
ReplaceAll(s, c) == SelectSeq(s, LAMBDA x : x # c)

RECURSIVE TrimStart(_)
TrimStart(s) ==
    IF Len(s) > 0 /\ IsWhitespace(s[1]) THEN TrimStart(Tail(s)) ELSE s

\* String.prototype.trim()
Trim(s) == Reverse(TrimStart(Reverse(TrimStart(s))))

\* s < t in the lexicographic order of code units
RECURSIVE LexLess(_, _)
LexLess(s, t) ==
    IF Len(t) = 0 THEN FALSE
    ELSE IF Len(s) = 0 THEN TRUE
    ELSE IF s[1] = t[1] THEN LexLess(Tail(s), Tail(t))
    ELSE CharCode(s[1]) < CharCode(t[1])

(***************************************************************************)
(* lib/memory.ts: the key-value history, a sorted set per store key.       *)
(* The store is a set of entries; a member occurs once per key.            *)
(***************************************************************************)
\* the JavaScript value undefined, where a text is expected
Undefined == <<"undefined">>

\* a companionKey argument that is null or undefined
NullKey == [null |-> TRUE]

\* how a template literal renders a value
ToText(x) ==
    IF x = Undefined THEN <<"u", "n", "d", "e", "f", "i", "n", "e", "d">> ELSE x

\* slice(-100) of lib/memory.ts
HISTORY_WINDOW == 100

Entry(key, member, score) == [key |-> key, member |-> member, score |-> score]

\* redis EXISTS
Exists(h, key) == \E e \in h : e.key = key

\* redis ZADD: a member already in the set only has its score updated
Zadd(h, key, score, member) ==
    {e \in h : ~(e.key = key /\ e.member = member)} \cup {Entry(key, member, score)}

\* order of a sorted set: by score, equal scores by member
EntryBefore(e, f) ==
    \/ e.score < f.score
    \/ e.score = f.score /\ LexLess(e.member, f.member)

\* the members of S in the order of the sorted set: the member at position i
\* is the one with i - 1 entries before it
SortEntries(S) ==
    LET rank == [e \in S |-> Cardinality({f \in S : EntryBefore(f, e)})]
    IN [i \in 1..Cardinality(S) |-> (CHOOSE e \in S : rank[e] = i - 1).member]

\* redis ZRANGE key min max BYSCORE
ZrangeByScore(h, key, min, max) ==
    SortEntries({e \in h : e.key = key /\ e.score >= min /\ e.score <= max})

generateRedisCompanionKey(companionKey) ==
    ToText(companionKey.companionName) \o <<HYPHEN>>
        \o ToText(companionKey.modelName) \o <<HYPHEN>>
        \o ToText(companionKey.userId)

\* a guard that only refuses a missing key
KeyMissing(companionKey) == companionKey = NullKey

\* the guard of writeToHistory and readLatestHistory
KeySetIncorrectly(companionKey) ==
    companionKey = NullKey \/ companionKey.userId = Undefined

\* the store after writeToHistory(text, companionKey) at time now
writeToHistory(h, text, companionKey, now) ==
    IF KeySetIncorrectly(companionKey) THEN h
    ELSE Zadd(h, generateRedisCompanionKey(companionKey), now, text)

\* what writeToHistory(text, companionKey) returns: "" when the key is refused,
\* else the reply of ZADD, the number of members added
writeToHistoryReturns(h, text, companionKey) ==
    IF KeySetIncorrectly(companionKey) THEN [type |-> "string", text |-> <<>>]
    ELSE IF \E e \in h : /\ e.key = generateRedisCompanionKey(companionKey)
                         /\ e.member = text
         THEN [type |-> "number", text |-> <<"0">>]
         ELSE [type |-> "number", text |-> <<"1">>]

\* the store commands writeToHistory or readLatestHistory issues
HistoryCommands(companionKey) ==
    IF KeySetIncorrectly(companionKey) THEN 0 ELSE 1

\* slice(-30) of the earlier MemoryManager (part_002)
HISTORY_WINDOW_OLD == 30

\* the earlier MemoryManager (part_002): the same read over the last 30 entries
readLatestHistoryOld(h, companionKey, now) ==
    IF KeySetIncorrectly(companionKey) THEN <<>>
    ELSE LET key == generateRedisCompanionKey(companionKey)
             result == ZrangeByScore(h, key, 0, now)
             sliced == Reverse(SliceLast(result, HISTORY_WINDOW_OLD))
         IN Join(Reverse(sliced), <<NL>>)

\* a read that reverses the slice once only
readLatestHistoryReversedOnce(h, companionKey, now) ==
    IF KeySetIncorrectly(companionKey) THEN <<>>
    ELSE LET key == generateRedisCompanionKey(companionKey)
             result == ZrangeByScore(h, key, 0, now)
         IN Join(Reverse(SliceLast(result, HISTORY_WINDOW)), <<NL>>)

\* the text readLatestHistory(companionKey) returns at time now
readLatestHistory(h, companionKey, now) ==
    IF KeySetIncorrectly(companionKey) THEN <<>>
    ELSE LET key == generateRedisCompanionKey(companionKey)
             result == ZrangeByScore(h, key, 0, now)
             sliced == Reverse(SliceLast(result, HISTORY_WINDOW))
         IN Join(Reverse(sliced), <<NL>>)

RECURSIVE SeedLoop(_, _, _, _)
\* the for loop of seedChatHistory from piece number counter + 1 on
SeedLoop(h, key, content, counter) ==
    IF counter >= Len(content) THEN h
    ELSE SeedLoop(Zadd(h, key, counter, content[counter + 1]), key, content, counter + 1)

\* a seeding that does not test whether the key exists
seedChatHistoryUnguarded(h, seedContent, delimiter, companionKey) ==
    SeedLoop(h, generateRedisCompanionKey(companionKey), Split(seedContent, delimiter), 0)

\* the zadd commands seedChatHistory(seedContent, delimiter, companionKey) issues
seedChatHistoryZadds(h, seedContent, delimiter, companionKey) ==
    IF Exists(h, generateRedisCompanionKey(companionKey)) THEN 0
    ELSE Len(Split(seedContent, delimiter))

\* the store after seedChatHistory(seedContent, delimiter, companionKey)
seedChatHistory(h, seedContent, delimiter, companionKey) ==
    LET key == generateRedisCompanionKey(companionKey)
    IN IF Exists(h, key) THEN h
       ELSE SeedLoop(h, key, Split(seedContent, delimiter), 0)

(***************************************************************************)
(* The response reconciler: the first line of the raw output, commas       *)
(* stripped.                                                               *)
(***************************************************************************)
\* an extraction that strips with replace, which removes the first comma only
extractStripFirstComma(modelResponse) ==
    LET commas == {i \in 1..Len(modelResponse) : modelResponse[i] = COMMA}
        first == CHOOSE i \in commas : \A j \in commas : i <= j
        cleaned == IF commas = {} THEN modelResponse
                   ELSE [i \in 1..(Len(modelResponse) - 1) |->
                            IF i < first THEN modelResponse[i] ELSE modelResponse[i + 1]]
    IN Split(cleaned, <<NL>>)[1]

\* route.ts and the second handler of part_003: replaceAll, then split
extractStripThenSplit(modelResponse) ==
    LET cleaned == ReplaceAll(modelResponse, COMMA)
        chunks == Split(cleaned, <<NL>>)
    IN chunks[1]

\* the first handler of part_003: split, then replaceAll
extractSplitThenStrip(modelResponse) ==
    ReplaceAll(Split(modelResponse, <<NL>>)[1], COMMA)

(***************************************************************************)
(* The POST handler.  rev names the revision being served:                 *)
(*   "route"     app/api/chat/[chatId]/route.ts                            *)
(*   "parallel"  the first handler of part_003 (lines 84-242)              *)
(*   "batched"   the second handler of part_003 (lines 303-507)            *)
(***************************************************************************)
VARIABLES
    rev,            \* the handler revision
    pc,             \* the await the request is suspended at
    served,         \* requests received so far
    caller,         \* the session the request comes with
    chatId,         \* params.chatId
    prompt,         \* the prompt of the request body
    user,           \* what currentUser() resolved to
    success,        \* what ratelimit() resolved to
    companion,      \* what findUnique resolved to
    recentMessages, \* companion.messages
    records,        \* the history text read before seeding
    similarDocs,    \* what vectorSearch resolved to
    content,        \* the pieces seedChatHistory is inserting
    counter,        \* the counter of seedChatHistory
    finalResponse,  \* the extracted response
    response,       \* the response returned to the caller
    error,          \* the call whose failure reached the catch block
    messages,       \* the relational message rows, oldest first
    history,        \* the key-value store
    clock,          \* Date.now()
    calls,          \* collaborator calls issued by the request
    before,         \* both stores as the request found them
    instance,       \* MemoryManager.instance is set
    cached,         \* memoryManagerInstance of part_003 is set
    timer,          \* the timeout armed at entry
    op              \* the last direct call of a function under test

vars ==
    <<rev, pc, served, caller, chatId, prompt, user, success, companion,
      recentMessages, records, similarDocs, content, counter, finalResponse,
      response, error, messages, history, clock, calls, before, instance, cached,
      timer, op>>

Revisions == {"route", "parallel", "batched"}

\* the model identifier of the companionKey
ModelName ==
    <<"m", "e", "t", "a", "/", "m", "e", "t", "a", HYPHEN, "l", "l", "a", "m", "a",
      HYPHEN, "3", HYPHEN, "8", "b", HYPHEN, "i", "n", "s", "t", "r", "u", "c", "t">>

\* the companion table of the relational store
Companions ==
    { [id |-> <<"c">>, seed |-> <<"a", NL, NL, "b">>],
      [id |-> <<"d">>, seed |-> <<"a", NL, NL, "a">>] }

\* persona ids a request may name; <<"e">> matches no companion
ChatIds == {<<"c">>, <<"d">>, <<"e">>}

\* what currentUser() may resolve to: nobody, two users, a user without first name
\* currentUser() resolving to null: user?.id and user?.firstName are undefined
NoUser == [id |-> Undefined, firstName |-> Undefined]

Users ==
    { NoUser,
      [id |-> <<"u">>, firstName |-> <<"a">>],
      [id |-> <<"v">>, firstName |-> <<"b">>],
      [id |-> <<"w">>, firstName |-> Undefined] }

Prompts == {<<"a">>, <<"b">>}

\* raw model outputs
ModelOutputs == Texts({"H", COMMA, SP, NL}, MaxOut)

\* the collaborator calls of the handler, the three zadd by call site
CallNames ==
    {"ratelimit", "findUnique", "create", "update", "seedZadd", "userZadd",
     "responseZadd", "exists", "zrange", "run"}

NoCalls == [n \in CallNames |-> 0]

Called(c, n) == [c EXCEPT ![n] = @ + 1]

NoResponse == [status |-> 0, body |-> <<>>]

\* new NextResponse(..., { status })
ErrorResponse(status) == [status |-> status, body |-> <<>>]

\* new StreamingTextResponse(...) enqueueing text
StreamingTextResponse(text) == [status |-> 200, body |-> text]

\* JavaScript truthiness of a text or undefined
Truthy(x) == x # Undefined /\ x # <<>>

\* the auth gate: !user?.firstName || !user?.id
Unauthorized(u) == ~Truthy(u.firstName) \/ ~Truthy(u.id)

\* take: of the messages include
Take(r) == IF r = "route" THEN 15 ELSE IF r = "parallel" THEN 10 ELSE 50

\* findUnique resolving to null
NoCompanion == [id |-> Undefined, seed |-> Undefined]

\* prismadb.companion.findUnique({ where: { id } })
FindCompanion(id) ==
    IF \E c \in Companions : c.id = id
    THEN CHOOSE c \in Companions : c.id = id
    ELSE NoCompanion

\* an include without orderBy: oldest first
IncludedMessagesOldestFirst(r, msgs, companionId, userId) ==
    LET mine == SelectSeq(msgs, LAMBDA m :
                    m.companionId = companionId /\ (r = "route" \/ m.userId = userId))
    IN IF Len(mine) <= Take(r) THEN mine ELSE SubSeq(mine, 1, Take(r))

\* the messages include: newest first, bounded; the later revisions filter by user
IncludedMessages(r, msgs, companionId, userId) ==
    LET mine == SelectSeq(msgs, LAMBDA m :
                    m.companionId = companionId /\ (r = "route" \/ m.userId = userId))
        newestFirst == Reverse(mine)
    IN IF Len(newestFirst) <= Take(r) THEN newestFirst
       ELSE SubSeq(newestFirst, 1, Take(r))

Message(text, role, userId, companionId) ==
    [content |-> text, role |-> role, userId |-> userId, companionId |-> companionId]

CompanionKeyOf(c, u) ==
    [companionName |-> c.id, userId |-> u.id, modelName |-> ModelName]

\* `User: ${prompt}\n`
UserLine(p) == <<"U", "s", "e", "r", ":", SP>> \o ToText(p) \o <<NL>>

\* the extraction of the revision
Extract(r, modelResponse) ==
    IF r = "parallel" THEN extractSplitThenStrip(modelResponse)
    ELSE extractStripThenSplit(modelResponse)

\* the state of a process that has served nothing yet
Idle ==
    /\ pc = "idle"
    /\ served = 0
    /\ caller = NoUser
    /\ chatId = Undefined
    /\ prompt = Undefined
    /\ user = NoUser
    /\ success = TRUE
    /\ companion = NoCompanion
    /\ recentMessages = <<>>
    /\ records = <<>>
    /\ similarDocs = 0
    /\ content = <<>>
    /\ counter = 0
    /\ finalResponse = <<>>
    /\ response = NoResponse
    /\ error = "none"
    /\ calls = NoCalls
    /\ timer = "none"

\* the first time Date.now() is read
StartTime == 1000

\* the history left by an earlier exchange: user u asked companion c "a" and
\* was answered "HH"
EarlierKey == [companionName |-> <<"c">>, userId |-> <<"u">>, modelName |-> ModelName]

EarlierHistory ==
    LET seeded == seedChatHistory({}, <<"a", NL, NL, "b">>, <<NL, NL>>, EarlierKey)
        asked == writeToHistory(seeded, UserLine(<<"a">>), EarlierKey, StartTime - 2)
    IN writeToHistory(asked, <<"H", "H">>, EarlierKey, StartTime - 1)

\* the rows of that exchange; route.ts stores no row for the prompt
EarlierMessages(r) ==
    IF r = "route"
    THEN <<Message(<<"H", "H">>, "system", <<"u">>, <<"c">>)>>
    ELSE <<Message(<<"a">>, "user", <<"u">>, <<"c">>),
           Message(<<"H", "H">>, "system", <<"u">>, <<"c">>)>>

\* a process serving its first request, or one after the earlier exchange
Init ==
    /\ Idle
    /\ rev \in Revisions
    /\ \E earlier \in BOOLEAN :
         /\ history = IF earlier THEN EarlierHistory ELSE {}
         /\ messages = IF earlier THEN EarlierMessages(rev) ELSE <<>>
         /\ instance = earlier
         /\ cached = (earlier /\ rev = "parallel")
    /\ before = [history |-> history, messages |-> messages]
    /\ clock = StartTime
    /\ op = [name |-> "none"]

\* what a request leaves alone unless it says otherwise
Stores == <<messages, history, clock>>
Locals == <<caller, chatId, prompt, user, success, companion, recentMessages,
            records, similarDocs, content, counter, finalResponse>>
Process == <<rev, served, before, instance, cached, op>>

\* a catch block that logs the error and returns nothing
CatchWithoutResponse(call) ==
    /\ pc' = "done"
    /\ response' = response
    /\ error' = call
    /\ timer' = "cleared"

\* the catch block, reached by the failure of call: clearTimeout and the
\* generic 500
Catch(call) ==
    /\ pc' = "done"
    /\ response' = ErrorResponse(500)
    /\ error' = call
    /\ timer' = "cleared"

\* a return inside the try block
Return(r) ==
    /\ pc' = "done"
    /\ response' = r
    /\ error' = error
    /\ timer' = timer

\* on to the next await
Goto(label) ==
    /\ pc' = label
    /\ response' = response
    /\ error' = error
    /\ timer' = timer

\* entry of POST: the AbortController and its timer
Begin ==
    /\ pc \in {"idle", "done"}
    /\ served < MaxRequests
    /\ served' = served + 1
    /\ \E u \in Users : caller' = u
    /\ \E id \in ChatIds : chatId' = id
    /\ prompt' = Undefined
    /\ user' = NoUser
    /\ success' = TRUE
    /\ companion' = NoCompanion
    /\ recentMessages' = <<>>
    /\ records' = <<>>
    /\ similarDocs' = 0
    /\ content' = <<>>
    /\ counter' = 0
    /\ finalResponse' = <<>>
    /\ response' = NoResponse
    /\ error' = "none"
    /\ calls' = NoCalls
    /\ before' = [history |-> history, messages |-> messages]
    /\ timer' = "armed"
    /\ pc' = "json"
    /\ UNCHANGED <<rev, instance, cached, messages, history, clock, op>>

\* const { prompt } = await request.json()
ParseBody ==
    /\ pc = "json"
    /\ \/ /\ \E p \in Prompts : prompt' = p
          /\ Goto("currentUser")
       \/ /\ prompt' = prompt
          /\ Catch("json")
    /\ UNCHANGED <<caller, chatId, user, success, companion, recentMessages,
                   records, similarDocs, content, counter, finalResponse, calls>>
    /\ UNCHANGED <<Stores, Process>>

\* const user = await currentUser(), and the auth gate
CurrentUser ==
    /\ pc = "currentUser"
    /\ \/ /\ user' = caller
          /\ IF Unauthorized(user')
             THEN Return(ErrorResponse(401))
             ELSE Goto("ratelimit")
       \/ /\ user' = user
          /\ Catch("currentUser")
    /\ UNCHANGED <<caller, chatId, prompt, success, companion, recentMessages,
                   records, similarDocs, content, counter, finalResponse, calls>>
    /\ UNCHANGED <<Stores, Process>>

\* a rate limiter whose verdict is read but not acted on
RateLimitNotEnforced ==
    /\ pc = "ratelimit"
    /\ rev = "route"
    /\ calls' = Called(calls, "ratelimit")
    /\ \/ /\ success' \in BOOLEAN
          /\ Goto("findUnique")
       \/ /\ success' = success
          /\ Catch("ratelimit")
    /\ UNCHANGED <<caller, chatId, prompt, user, companion, recentMessages,
                   records, similarDocs, content, counter, finalResponse>>
    /\ UNCHANGED <<Stores, Process>>

\* route.ts: const { success } = await ratelimit(identifier), and its 429
RateLimit ==
    /\ pc = "ratelimit"
    /\ rev = "route"
    /\ calls' = Called(calls, "ratelimit")
    /\ \/ /\ success' = TRUE
          /\ Goto("findUnique")
       \/ /\ success' = FALSE
          /\ Return(ErrorResponse(429))
       \/ /\ success' = success
          /\ Catch("ratelimit")
    /\ UNCHANGED <<caller, chatId, prompt, user, companion, recentMessages,
                   records, similarDocs, content, counter, finalResponse>>
    /\ UNCHANGED <<Stores, Process>>

\* a lookup whose null result is not tested
FindUniqueUnchecked ==
    /\ pc = "findUnique"
    /\ rev = "route"
    /\ calls' = Called(calls, "findUnique")
    /\ \/ /\ companion' = FindCompanion(chatId)
          /\ Goto("getInstance")
          /\ recentMessages' = IncludedMessages(rev, messages, companion'.id, user.id)
       \/ /\ Catch("findUnique")
          /\ UNCHANGED <<companion, recentMessages>>
    /\ UNCHANGED <<caller, chatId, prompt, user, success, records, similarDocs,
                   content, counter, finalResponse>>
    /\ UNCHANGED <<Stores, Process>>

\* route.ts: the companion lookup, its 404, and the message window
FindUnique ==
    /\ pc = "findUnique"
    /\ rev = "route"
    /\ calls' = Called(calls, "findUnique")
    /\ \/ /\ companion' = FindCompanion(chatId)
          /\ IF companion' = NoCompanion
             THEN /\ Return(ErrorResponse(404))
                  /\ recentMessages' = recentMessages
             ELSE /\ Goto("getInstance")
                  /\ recentMessages' =
                         IncludedMessages(rev, messages, companion'.id, user.id)
       \/ /\ Catch("findUnique")
          /\ UNCHANGED <<companion, recentMessages>>
    /\ UNCHANGED <<caller, chatId, prompt, user, success, records, similarDocs,
                   content, counter, finalResponse>>
    /\ UNCHANGED <<Stores, Process>>

\* part_003: Promise.all([ratelimit(identifier), findUnique(...)]) issues both
\* calls and rejects when either does; then the 429 and the 404
RateLimitAndFind ==
    /\ pc = "ratelimit"
    /\ rev # "route"
    /\ calls' = Called(Called(calls, "ratelimit"), "findUnique")
    /\ \E limiter \in {"ok", "limited", "throws"}, lookup \in {"ok", "throws"} :
         /\ success' = (limiter # "limited")
         /\ IF limiter = "throws" \/ lookup = "throws"
            THEN /\ Catch(IF limiter = "throws" THEN "ratelimit" ELSE "findUnique")
                 /\ UNCHANGED <<companion, recentMessages>>
            ELSE /\ companion' = FindCompanion(chatId)
                 /\ IF ~success'
                    THEN /\ Return(ErrorResponse(429))
                         /\ recentMessages' = recentMessages
                    ELSE IF companion' = NoCompanion
                    THEN /\ Return(ErrorResponse(404))
                         /\ recentMessages' = recentMessages
                    ELSE /\ Goto("create")
                         /\ recentMessages' =
                                IncludedMessages(rev, messages, companion'.id, user.id)
    /\ UNCHANGED <<caller, chatId, prompt, user, records, similarDocs, content,
                   counter, finalResponse>>
    /\ UNCHANGED <<Stores, Process>>

\* part_003: prismadb.message.create of the user's prompt
CreateUserMessage ==
    /\ pc = "create"
    /\ calls' = Called(calls, "create")
    /\ \/ /\ messages' = Append(messages, Message(prompt, "user", user.id, companion.id))
          /\ Goto("getInstance")
       \/ /\ messages' = messages
          /\ Catch("create")
    /\ UNCHANGED <<Locals, history, clock, Process>>

\* MemoryManager.getInstance(); part_003 first looks at its module-level cache
GetInstance ==
    /\ pc = "getInstance"
    /\ \/ /\ instance' = TRUE
          /\ cached' = (cached \/ rev = "parallel")
          /\ Goto("readHistory")
       \/ /\ ~instance
          /\ ~(rev = "parallel" /\ cached)
          /\ UNCHANGED <<instance, cached>>
          /\ Catch("getInstance")
    /\ UNCHANGED <<Locals, Stores, calls, rev, served, before, op>>

\* both readLatestHistory calls of the Promise.all
ReadHistory ==
    /\ pc = "readHistory"
    /\ calls' = Called(Called(calls, "zrange"), "zrange")
    /\ \/ /\ records' = readLatestHistory(history, CompanionKeyOf(companion, user), clock)
          /\ Goto("openIndex")
       \/ /\ records' = records
          /\ Catch("zrange")
    /\ UNCHANGED <<caller, chatId, prompt, user, success, companion, recentMessages,
                   similarDocs, content, counter, finalResponse>>
    /\ UNCHANGED <<Stores, Process>>

\* vectorSearch: PineconeStore.fromExistingIndex, outside the .catch
OpenIndex ==
    /\ pc = "openIndex"
    /\ \/ Goto("similaritySearch")
       \/ Catch("fromExistingIndex")
    /\ UNCHANGED <<Locals, Stores, calls, Process>>

\* vectorSearch: similaritySearch(...).catch(() => []), then the seeding test
SimilaritySearch ==
    /\ pc = "similaritySearch"
    /\ \E docs \in 0..1 : similarDocs' = docs
    /\ IF Len(records) = 0 THEN Goto("seedExists") ELSE Goto("writeUser")
    /\ UNCHANGED <<caller, chatId, prompt, user, success, companion, recentMessages,
                   records, content, counter, finalResponse, calls>>
    /\ UNCHANGED <<Stores, Process>>

\* seedChatHistory: the exists test and the split
SeedExists ==
    /\ pc = "seedExists"
    /\ calls' = Called(calls, "exists")
    /\ \/ /\ IF Exists(history, generateRedisCompanionKey(CompanionKeyOf(companion, user)))
             THEN /\ Goto("writeUser")
                  /\ content' = content
             ELSE /\ content' = Split(companion.seed, <<NL, NL>>)
                  /\ IF Len(content') = 0 THEN Goto("writeUser") ELSE Goto("seedLoop")
          /\ counter' = 0
       \/ /\ UNCHANGED <<content, counter>>
          /\ Catch("exists")
    /\ UNCHANGED <<caller, chatId, prompt, user, success, companion, recentMessages,
                   records, similarDocs, finalResponse>>
    /\ UNCHANGED <<Stores, Process>>

\* seedChatHistory: one turn of the for loop
SeedZadd ==
    /\ pc = "seedLoop"
    /\ calls' = Called(calls, "seedZadd")
    /\ \/ /\ history' = Zadd(history,
                             generateRedisCompanionKey(CompanionKeyOf(companion, user)),
                             counter, content[counter + 1])
          /\ counter' = counter + 1
          /\ IF counter' >= Len(content) THEN Goto("writeUser") ELSE Goto("seedLoop")
       \/ /\ UNCHANGED <<history, counter>>
          /\ Catch("seedZadd")
    /\ UNCHANGED <<caller, chatId, prompt, user, success, companion, recentMessages,
                   records, similarDocs, content, finalResponse>>
    /\ UNCHANGED <<messages, clock, Process>>

\* a handler that goes on without writing the user's line
WriteUserLineDropped ==
    /\ pc = "writeUser"
    /\ calls' = Called(calls, "userZadd")
    /\ clock' = clock + 1
    /\ history' = history
    /\ IF rev = "route" THEN Goto("readPrompt") ELSE Goto("run")
    /\ UNCHANGED <<Locals, messages, Process>>

\* writeToHistory(`User: ${prompt}\n`, companionKey)
WriteUserLine ==
    /\ pc = "writeUser"
    /\ calls' = Called(calls, "userZadd")
    /\ clock' = clock + 1
    /\ \/ /\ history' = writeToHistory(history, UserLine(prompt),
                                       CompanionKeyOf(companion, user), clock)
          /\ IF rev = "route" THEN Goto("readPrompt") ELSE Goto("run")
       \/ /\ history' = history
          /\ Catch("userZadd")
    /\ UNCHANGED <<Locals, messages, Process>>

\* route.ts: the readLatestHistory inside the prompt template
ReadForPrompt ==
    /\ pc = "readPrompt"
    /\ calls' = Called(calls, "zrange")
    /\ \/ Goto("run")
       \/ Catch("zrange")
    /\ UNCHANGED <<Locals, Stores, Process>>

\* replicate.run, and the extraction of the first line
RunModel ==
    /\ pc = "run"
    /\ calls' = Called(calls, "run")
    /\ \/ /\ \E modelResponse \in ModelOutputs :
               finalResponse' = Extract(rev, modelResponse)
          /\ Goto("persist")
       \/ /\ finalResponse' = finalResponse
          /\ Catch("run")
    /\ UNCHANGED <<caller, chatId, prompt, user, success, companion, recentMessages,
                   records, similarDocs, content, counter>>
    /\ UNCHANGED <<Stores, Process>>

\* a test that persists every non-empty response
ShouldPersistNonEmpty(text) == Len(text) > 0

\* if (finalResponse?.length > 1)
ShouldPersist(text) == Len(text) > 1

\* two response writes whose failures are ignored
PersistResponseSettled ==
    /\ pc = "persist"
    /\ ShouldPersist(finalResponse)
    /\ calls' = Called(Called(calls, "responseZadd"), "update")
    /\ clock' = clock + 1
    /\ \E zaddOk \in BOOLEAN, updateOk \in BOOLEAN :
         /\ history' = IF zaddOk
                       THEN writeToHistory(history, Trim(finalResponse),
                                           CompanionKeyOf(companion, user), clock)
                       ELSE history
         /\ messages' = IF updateOk
                        THEN Append(messages, Message(Trim(finalResponse), "system",
                                                      user.id, chatId))
                        ELSE messages
         /\ Return(StreamingTextResponse(finalResponse))
    /\ UNCHANGED <<Locals, Process>>

\* the Promise.all of the two response writes, which rejects when either write
\* does, and the streamed response
PersistResponse ==
    /\ pc = "persist"
    /\ ShouldPersist(finalResponse)
    /\ calls' = Called(Called(calls, "responseZadd"), "update")
    /\ clock' = clock + 1
    /\ \E zaddOk \in BOOLEAN, updateOk \in BOOLEAN :
         /\ history' = IF zaddOk
                       THEN writeToHistory(history, Trim(finalResponse),
                                           CompanionKeyOf(companion, user), clock)
                       ELSE history
         /\ messages' = IF updateOk
                        THEN Append(messages, Message(Trim(finalResponse), "system",
                                                      user.id, chatId))
                        ELSE messages
         /\ IF zaddOk /\ updateOk
            THEN Return(StreamingTextResponse(finalResponse))
            ELSE Catch(IF zaddOk THEN "update" ELSE "responseZadd")
    /\ UNCHANGED <<Locals, Process>>

\* a response of at most one character is streamed without being persisted
SkipPersist ==
    /\ pc = "persist"
    /\ ~ShouldPersist(finalResponse)
    /\ Return(StreamingTextResponse(finalResponse))
    /\ UNCHANGED <<Locals, Stores, calls, Process>>

Next ==
    \/ Begin
    \/ ParseBody
    \/ CurrentUser
    \/ RateLimit
    \/ FindUnique
    \/ RateLimitAndFind
    \/ CreateUserMessage
    \/ GetInstance
    \/ ReadHistory
    \/ OpenIndex
    \/ SimilaritySearch
    \/ SeedExists
    \/ SeedZadd
    \/ WriteUserLine
    \/ ReadForPrompt
    \/ RunModel
    \/ PersistResponse
    \/ SkipPersist

Spec == Init /\ [][Next]_vars

(***************************************************************************)
(* Properties of the request pipeline.                                     *)
(***************************************************************************)
\* the request has written to neither store and issued no write
NoWrites ==
    /\ history = before.history
    /\ messages = before.messages
    /\ calls["create"] = 0
    /\ calls["update"] = 0
    /\ calls["seedZadd"] = 0
    /\ calls["userZadd"] = 0
    /\ calls["responseZadd"] = 0

\* C1: every request of an unauthenticated caller, whatever its body, is
\* answered 401 and writes to neither the message store nor the history.
C1_UnauthenticatedIs401 ==
    (pc = "done" /\ caller = NoUser) => (response.status = 401 /\ NoWrites)

\* C2 as stated: a request whose rate-limit check fails is answered 429 with no
\* companion lookup issued before the response, in every revision.
C2_NoLookupBefore429 ==
    (pc = "done" /\ ~success) => (response.status = 429 /\ calls["findUnique"] = 0)

\* C2 amended: a request whose rate-limit check fails is answered 429 with no
\* companion lookup issued in route.ts; in the revisions of part_003 the lookup
\* has been issued together with the check, and the answer is 429 unless that
\* lookup fails, which gives 500.
C2_NoLookupBefore429InRoute ==
    (pc = "done" /\ ~success) =>
        IF rev = "route"
        THEN response.status = 429 /\ calls["findUnique"] = 0
        ELSE /\ calls["findUnique"] = 1
             /\ \/ response.status = 429
                \/ response.status = 500 /\ error = "findUnique"

C2_Witness ==
    pc = "done" /\ ~success /\ rev = "route" /\ response.status = 429

\* C3: an authenticated request within quota whose persona id matches no
\* companion is answered 404 when no call fails; it creates no message row,
\* neither seeds nor appends to the history, and never invokes the model.
C3_NotFoundWritesNothing ==
    (pc = "done" /\ ~Unauthorized(caller) /\ FindCompanion(chatId) = NoCompanion) =>
        /\ NoWrites
        /\ calls["run"] = 0
        /\ calls["exists"] = 0
        /\ (success /\ error = "none") => response.status = 404

C3_Witness ==
    /\ pc = "done"
    /\ ~Unauthorized(caller)
    /\ FindCompanion(chatId) = NoCompanion
    /\ calls["findUnique"] = 1
    /\ response.status = 404

\* the order of the awaits of the handler
PcRank(p) ==
    CASE p = "idle" -> 0
      [] p = "json" -> 1
      [] p = "currentUser" -> 2
      [] p = "ratelimit" -> 3
      [] p = "findUnique" -> 4
      [] p = "create" -> 5
      [] p = "getInstance" -> 6
      [] p = "readHistory" -> 7
      [] p = "openIndex" -> 8
      [] p = "similaritySearch" -> 9
      [] p = "seedExists" -> 10
      [] p = "seedLoop" -> 11
      [] p = "writeUser" -> 12
      [] p = "readPrompt" -> 13
      [] p = "run" -> 14
      [] p = "persist" -> 15
      [] p = "done" -> 16

\* C4: a request never moves back to an earlier step, has no response before it
\* ends, ends with a streamed body or one of 401, 429, 404, 500, and ends with
\* 500 whenever a collaborator call other than the similarity search fails.
C4_OneTerminalOutcome ==
    [][ /\ PcRank(pc') >= PcRank(pc) \/ (pc = "done" /\ pc' = "json")
        /\ pc' # "done" => response' = NoResponse
        /\ pc' = "done" => response'.status \in {200, 401, 429, 404, 500}
        /\ (pc' = "done" /\ error' # "none") => response' = ErrorResponse(500)
      ]_vars

C4_Witness ==
    pc = "done" /\ error = "run" /\ response = ErrorResponse(500)

\* C5: the auth gate answers 401 if and only if the caller is not signed in:
\* a caller with a verified user id passes, whatever else the user record holds.
C5_GateIffNotSignedIn ==
    (pc = "done" /\ error \notin {"json", "currentUser"}) =>
        (response.status = 401 <=> ~Truthy(caller.id))

\* the model call of the request has returned
ModelReturned == pc = "done" /\ calls["run"] = 1 /\ error # "run"

\* the store key of the request
RequestKey == generateRedisCompanionKey(CompanionKeyOf(companion, user))

\* C7: once the model has returned, the two response writes are issued if and
\* only if the extracted text is longer than one character; a shorter text is
\* written to neither store and is streamed, not answered with an error; a
\* longer text that is streamed has one history entry and one new row with role
\* system owned by the caller.
C7_PersistIffLongerThanOne ==
    ModelReturned =>
        /\ calls["responseZadd"] = (IF Len(finalResponse) > 1 THEN 1 ELSE 0)
        /\ calls["update"] = calls["responseZadd"]
        /\ Len(finalResponse) <= 1 =>
              /\ response = StreamingTextResponse(finalResponse)
              /\ error = "none"
              /\ \A e \in history \ before.history :
                    e.score < StartTime \/ e.member = UserLine(prompt)
              /\ SelectSeq(messages, LAMBDA m : m.role = "system")
                    = SelectSeq(before.messages, LAMBDA m : m.role = "system")
        /\ (Len(finalResponse) > 1 /\ response.status = 200) =>
              /\ Entry(RequestKey, Trim(finalResponse), clock - 1) \in history
              /\ Len(messages) = Len(before.messages) + calls["create"] + 1
              /\ messages[Len(messages)]
                    = Message(Trim(finalResponse), "system", caller.id, chatId)

C7_Witness ==
    /\ ModelReturned
    /\ finalResponse = <<"H">>
    /\ response = StreamingTextResponse(<<"H">>)

\* C8: whenever a response is persisted, the text appended to the history, the
\* content of the new message row and the streamed text are the same string.
C8_PersistedIsStreamed ==
    (pc = "done" /\ response.status = 200 /\ calls["responseZadd"] = 1) =>
        /\ messages[Len(messages)].content = response.body
        /\ Entry(RequestKey, response.body, clock - 1) \in history

(***************************************************************************)
(* The extraction alone, applied to every raw output up to MaxRaw          *)
(* characters.                                                             *)
(***************************************************************************)
\* a process in which no request is being served
NoRequest ==
    /\ Idle
    /\ rev = "route"
    /\ history = {}
    /\ messages = <<>>
    /\ before = [history |-> {}, messages |-> <<>>]
    /\ instance = FALSE
    /\ cached = FALSE
    /\ clock = StartTime

Request == <<rev, pc, served, caller, chatId, prompt, user, success, companion,
             recentMessages, records, similarDocs, content, counter, finalResponse,
             response, error, messages, calls, before, instance, cached, timer>>

RawOutputs == Texts({"H", COMMA, SP, NL}, MaxRaw)

InitExtract ==
    /\ NoRequest
    /\ \E raw \in RawOutputs : op = [name |-> "raw", raw |-> raw]

\* both extractions of one raw output
ApplyExtract ==
    /\ op.name = "raw"
    /\ op' = [name |-> "extracted", raw |-> op.raw,
              stripThenSplit |-> extractStripThenSplit(op.raw),
              splitThenStrip |-> extractSplitThenStrip(op.raw)]
    /\ UNCHANGED <<Request, history, clock>>

NextExtract == ApplyExtract

SpecExtract == InitExtract /\ [][NextExtract]_vars

\* the text before the first newline
FirstLine(text) ==
    LET stops == {i \in 1..Len(text) : text[i] = NL}
    IN IF stops = {} THEN text
       ELSE SubSeq(text, 1, (CHOOSE i \in stops : \A j \in stops : i <= j) - 1)

\* C6: the extracted response is the first line of the raw output without its
\* commas, holds neither a comma nor a newline, and is the same whether the
\* commas are stripped before or after the split.
C6_FirstLineWithoutCommas ==
    op.name = "extracted" =>
        /\ op.stripThenSplit = SelectSeq(FirstLine(op.raw), LAMBDA c : c # COMMA)
        /\ op.splitThenStrip = op.stripThenSplit
        /\ \A i \in 1..Len(op.stripThenSplit) : op.stripThenSplit[i] \notin {COMMA, NL}

C6_Witness ==
    /\ op.name = "extracted"
    /\ op.raw = <<"H", COMMA, SP, COMMA>>
    /\ op.stripThenSplit = <<"H", SP>>

(***************************************************************************)
(* The MemoryManager alone: calls on one seed transcript and two keys.     *)
(***************************************************************************)
SeedTexts == Texts({"a", "b", NL}, MaxSeed)

Delimiters == {<<NL>>, <<NL, NL>>, <<>>}

MemoryKeys ==
    { EarlierKey,
      [companionName |-> <<"c">>, userId |-> Undefined, modelName |-> ModelName],
      [companionName |-> Undefined, userId |-> <<"u">>, modelName |-> ModelName],
      NullKey }

\* seedChatHistory reads the fields of its key without a test: the handler
\* passes it an object
SeedKeys == MemoryKeys \ {NullKey}

WriteTexts == {<<"a">>, <<"b">>}

InitMemory ==
    /\ NoRequest
    /\ \E seedContent \in SeedTexts, delimiter \in Delimiters :
         op = [name |-> "none", n |-> 0, seedContent |-> seedContent,
               delimiter |-> delimiter]

\* the next direct call, of which there are at most MaxCalls
NextCall(name, companionKey) ==
    [name |-> name, n |-> op.n + 1, seedContent |-> op.seedContent,
     delimiter |-> op.delimiter, companionKey |-> companionKey, before |-> history]

\* await seedChatHistory(seedContent, delimiter, companionKey)
CallSeed ==
    /\ op.n < MaxCalls
    /\ \E k \in SeedKeys :
         /\ history' = seedChatHistory(history, op.seedContent, op.delimiter, k)
         /\ op' = NextCall("seed", k) @@
                  [zadds |-> seedChatHistoryZadds(history, op.seedContent,
                                                  op.delimiter, k),
                   commands |-> 1 + seedChatHistoryZadds(history, op.seedContent,
                                                         op.delimiter, k)]
    /\ UNCHANGED <<Request, clock>>

\* await writeToHistory(text, companionKey)
CallWrite ==
    /\ op.n < MaxCalls
    /\ \E k \in MemoryKeys, text \in WriteTexts :
         /\ history' = writeToHistory(history, text, k, clock)
         /\ op' = NextCall("write", k) @@
                  [text |-> text,
                   returned |-> writeToHistoryReturns(history, text, k),
                   commands |-> HistoryCommands(k)]
    /\ clock' = clock + 1
    /\ UNCHANGED Request

\* await readLatestHistory(companionKey); fresh says that the call before it
\* seeded this key, which did not exist
CallRead ==
    /\ op.n < MaxCalls
    /\ \E k \in MemoryKeys :
         op' = NextCall("read", k) @@
               [result |-> readLatestHistory(history, k, clock),
                commands |-> HistoryCommands(k),
                fresh |-> /\ op.name = "seed"
                          /\ op.companionKey = k
                          /\ ~Exists(op.before, generateRedisCompanionKey(k))]
    /\ UNCHANGED <<Request, history, clock>>

NextMemory ==
    \/ CallSeed
    \/ CallWrite
    \/ CallRead

SpecMemory == InitMemory /\ [][NextMemory]_vars

\* C9: seedChatHistory on a key that exists issues no zadd and leaves the store
\* as it was, and a second call right after any call leaves the store as the
\* first call left it.
C9_SeedIdempotent ==
    op.name = "seed" =>
        /\ Exists(op.before, generateRedisCompanionKey(op.companionKey)) =>
              (history = op.before /\ op.zadds = 0)
        /\ seedChatHistory(history, op.seedContent, op.delimiter, op.companionKey)
              = history

C9_Witness ==
    /\ op.name = "seed"
    /\ Exists(op.before, generateRedisCompanionKey(op.companionKey))
    /\ \E e \in op.before : e.score >= StartTime
    /\ history = op.before

\* C10: readLatestHistory on a well-formed key that has just been seeded returns
\* the pieces of the split, the last HISTORY_WINDOW of them, in the order of the
\* split, also when a piece occurs more than once.
C10_ReadAfterSeedIsSplit ==
    (op.name = "read" /\ op.fresh /\ ~KeySetIncorrectly(op.companionKey)) =>
        op.result = Join(SliceLast(Split(op.seedContent, op.delimiter), HISTORY_WINDOW),
                         <<NL>>)

(***************************************************************************)
(* readLatestHistory on histories longer than its window: the store holds  *)
(* what n writeToHistory calls with distinct texts left.                   *)
(***************************************************************************)
\* the letters of CodeOrder
Letters == SubSeq(CodeOrder, 11, Len(CodeOrder))

\* a text of two letters, different for every i below Len(Letters)^2
WindowText(i) ==
    <<Letters[(i \div Len(Letters)) + 1], Letters[(i % Len(Letters)) + 1]>>

\* the order of the texts and the pace of the clock over the n writes
WritePatterns == {"ascending", "descending", "paired"}

\* the store after n calls writeToHistory(text, EarlierKey) with n different
\* texts, the i-th call at the time the pattern gives it
WrittenHistory(n, pattern) ==
    {Entry(generateRedisCompanionKey(EarlierKey),
           IF pattern = "ascending" THEN WindowText(i) ELSE WindowText(n - i),
           IF pattern = "paired" THEN StartTime + (i \div 2) ELSE StartTime + i)
        : i \in 1..n}

InitWindow ==
    /\ Idle
    /\ rev = "route"
    /\ messages = <<>>
    /\ instance = FALSE
    /\ cached = FALSE
    /\ \E n \in 0..(HISTORY_WINDOW + MaxExtra), pattern \in WritePatterns :
         /\ history = WrittenHistory(n, pattern)
         /\ clock = StartTime + n + 1
         /\ op = [name |-> "stored", n |-> n]
    /\ before = [history |-> history, messages |-> <<>>]

\* await readLatestHistory(companionKey) of lib/memory.ts
ReadWindow ==
    /\ op.name = "stored"
    /\ op' = [name |-> "read", n |-> op.n, window |-> HISTORY_WINDOW,
              result |-> readLatestHistory(history, EarlierKey, clock)]
    /\ UNCHANGED <<Request, history, clock>>

\* await readLatestHistory(companionKey) of part_002
ReadWindowOld ==
    /\ op.name = "stored"
    /\ op' = [name |-> "read", n |-> op.n, window |-> HISTORY_WINDOW_OLD,
              result |-> readLatestHistoryOld(history, EarlierKey, clock)]
    /\ UNCHANGED <<Request, history, clock>>

NextWindow ==
    \/ ReadWindow
    \/ ReadWindowOld

SpecWindow == InitWindow /\ [][NextWindow]_vars

\* the entries of a key
EntriesOf(h, key) == {e \in h : e.key = key}

\* the score of a member of a key
ScoreOf(h, key, member) == (CHOOSE e \in EntriesOf(h, key) : e.member = member).score

\* the lines of a text read from the history
LinesOf(text) ==
    IF text = <<>> THEN <<>>
    ELSE LET ends == {i \in 1..Len(text) : text[i] = NL} \cup {Len(text) + 1}
             end(k) == CHOOSE i \in ends : Cardinality({j \in ends : j < i}) = k - 1
         IN [k \in 1..Cardinality(ends) |->
                SubSeq(text, IF k = 1 THEN 1 ELSE end(k - 1) + 1, end(k) - 1)]

\* C11: readLatestHistory returns the N highest-scored entries of the key, all
\* of them when there are fewer than N, each once, in ascending score order.
C11_ReadIsLatestWindow ==
    op.name = "read" =>
        LET key == generateRedisCompanionKey(EarlierKey)
            all == EntriesOf(history, key)
            lines == LinesOf(op.result)
            read == {lines[i] : i \in 1..Len(lines)}
            scoreOf == [m \in {e.member : e \in all} |-> ScoreOf(history, key, m)]
            lowest == IF Len(lines) = 0 THEN 0 ELSE scoreOf[lines[1]]
        IN /\ Len(lines) = (IF Cardinality(all) < op.window
                            THEN Cardinality(all) ELSE op.window)
           /\ Cardinality(read) = Len(lines)
           /\ read \subseteq {e.member : e \in all}
           /\ \A i \in 1..(Len(lines) - 1) : scoreOf[lines[i]] <= scoreOf[lines[i + 1]]
           /\ \A e \in all : e.member \notin read => e.score <= lowest

C11_Witness ==
    /\ op.name = "read"
    /\ op.window = HISTORY_WINDOW
    /\ Cardinality(history) = HISTORY_WINDOW + 2
    /\ Len(LinesOf(op.result)) = HISTORY_WINDOW

\* C12: with a missing key, or a key whose userId is undefined, writeToHistory
\* and readLatestHistory return the empty string, issue no store command and
\* leave the store as it was.
C12_RefusedWithoutUserId ==
    (/\ op.name \in {"write", "read"}
     /\ \/ op.companionKey = NullKey
        \/ op.companionKey.userId = Undefined) =>
        /\ op.commands = 0
        /\ history = op.before
        /\ op.name = "write" => op.returned = [type |-> "string", text |-> <<>>]
        /\ op.name = "read" => op.result = <<>>

C12_Witness ==
    /\ op.name = "write"
    /\ op.companionKey # NullKey
    /\ op.companionKey.userId = Undefined
    /\ op.returned.text = <<>>
    /\ history # {}

\* C13: a memory operation whose key has an undefined companionName, modelName
\* or userId is refused: it issues no store command, so no store key built from
\* an undefined field is read or written.
C13_RefusedWithoutAnyField ==
    (/\ op.name \in {"seed", "write", "read"}
     /\ op.companionKey # NullKey
     /\ \/ op.companionKey.companionName = Undefined
        \/ op.companionKey.modelName = Undefined
        \/ op.companionKey.userId = Undefined) =>
        /\ op.commands = 0
        /\ history = op.before

\* C14: no step of vectorSearch makes the request fail: when opening the index
\* or the similarity query fails, the search yields no documents and the
\* request goes on, so no request ends in the 500 of the catch block on its
\* account.
C14_VectorSearchAbsorbsFailures ==
    ~(pc = "done" /\ response = ErrorResponse(500) /\ error = "fromExistingIndex")

(***************************************************************************)
(* The repetition detectors: the filter callback of route.ts (and of the   *)
(* batched handler), which compares bags of space-separated words, and     *)
(* calculateMessageSimilarity of the parallelised handler, which compares  *)
(* sets of whitespace-separated words behind two quick tests.              *)
(***************************************************************************)
\* String.prototype.toLowerCase
ToLowerCase(s) == [i \in 1..Len(s) |-> IF s[i] = "A" THEN "a" ELSE s[i]]

\* .split(" ").filter(word => word.length > 0)
WordsBySpace(s) == SelectSeq(Split(s, <<SP>>), LAMBDA word : Len(word) > 0)

RECURSIVE SplitWhitespaceFrom(_, _, _)
\* String.prototype.split(/\s+/): the pieces between runs of whitespace
SplitWhitespaceFrom(s, i, cur) ==
    IF i > Len(s) THEN <<cur>>
    ELSE IF IsWhitespace(s[i])
         THEN IF i > 1 /\ IsWhitespace(s[i - 1])
              THEN SplitWhitespaceFrom(s, i + 1, cur)
              ELSE <<cur>> \o SplitWhitespaceFrom(s, i + 1, <<>>)
    ELSE SplitWhitespaceFrom(s, i + 1, Append(cur, s[i]))

\* .split(/\s+/).filter(Boolean)
WordsByWhitespace(s) ==
    SelectSeq(SplitWhitespaceFrom(s, 1, <<>>), LAMBDA word : Len(word) > 0)

\* the entries of an array as a set
Elements(words) == {words[i] : i \in 1..Len(words)}

\* the count the frequency map holds for a word
WordCount(words, word) == Cardinality({i \in 1..Len(words) : words[i] = word})

Min(a, b) == IF a < b THEN a ELSE b

Max(a, b) == IF a > b THEN a ELSE b

Abs(a) == IF a < 0 THEN 0 - a ELSE a

RECURSIVE SumOver(_, _, _)
\* the sum of count[w] over the words w of S
SumOver(S, msgWords, promptWords) ==
    IF S = {} THEN 0
    ELSE LET word == CHOOSE w \in S : TRUE
         IN Min(WordCount(msgWords, word), WordCount(promptWords, word))
                + SumOver(S \ {word}, msgWords, promptWords)

\* a count of the common words that counts a repeated word once
CommonDistinctWords(msgWords, promptWords) ==
    Cardinality(Elements(msgWords) \cap Elements(promptWords))

\* commonWords of the filter callback: for each word of the message that the
\* prompt has, the smaller of the two counts
CommonWords(msgWords, promptWords) ==
    SumOver(Elements(msgWords) \cap Elements(promptWords), msgWords, promptWords)

\* num / den > a / b in IEEE arithmetic, for counts: 0 / 0 is NaN, which is
\* greater than nothing
Exceeds(num, den, a, b) ==
    IF den = 0 THEN num > 0 ELSE num * b > a * den

\* the filter callback of route.ts on one message: the similarity it computes
\* and its verdict
FilterSimilar(msgContent, promptText) ==
    IF msgContent = <<>> THEN [computed |-> FALSE, num |-> 0, den |-> 0, similar |-> FALSE]
    ELSE LET msgWords == WordsBySpace(ToLowerCase(msgContent))
             promptWords == WordsBySpace(ToLowerCase(promptText))
             commonWords == CommonWords(msgWords, promptWords)
             den == Max(Len(msgWords), Len(promptWords))
         IN [computed |-> TRUE, num |-> commonWords, den |-> den,
             similar |-> Exceeds(commonWords, den, 6, 10)]

\* calculateMessageSimilarity(msg, prompt) of the parallelised handler
calculateMessageSimilarity(msgContent, promptText) ==
    LET msgLength == Len(msgContent)
        promptLength == Len(promptText)
        msgWords == Elements(WordsByWhitespace(ToLowerCase(msgContent)))
        promptWords == Elements(WordsByWhitespace(ToLowerCase(promptText)))
        commonWords == Cardinality(msgWords \cap promptWords)
        den == Max(Cardinality(msgWords), Cardinality(promptWords))
        none == [computed |-> FALSE, num |-> 0, den |-> 0, similar |-> FALSE]
    IN IF msgContent = <<>> THEN none
       ELSE IF Exceeds(Abs(msgLength - promptLength),
                       Max(msgLength, promptLength), 5, 10) THEN none
       ELSE IF Exceeds(Abs(Cardinality(msgWords) - Cardinality(promptWords)),
                       den, 5, 10) THEN none
       ELSE [computed |-> TRUE, num |-> commonWords, den |-> den,
             similar |-> Exceeds(commonWords, den, 6, 10)]

\* the texts compared
CompareTexts == Texts({"a", "A", SP, NL}, MaxText)

InitSimilarity ==
    /\ NoRequest
    /\ \E msgContent \in CompareTexts, promptText \in CompareTexts :
         op = [name |-> "none", content |-> msgContent, prompt |-> promptText]

\* recentMessages.filter((msg) => ...) of route.ts on a message with this content
FilterMessage ==
    /\ op.name = "none"
    /\ op' = [op EXCEPT !.name = "filter"]
               @@ [similarity |-> FilterSimilar(op.content, op.prompt)]
    /\ UNCHANGED <<Request, history, clock>>

\* recentMessages.filter(msg => calculateMessageSimilarity(msg, prompt))
CalculateMessageSimilarity ==
    /\ op.name = "none"
    /\ op' = [op EXCEPT !.name = "calculate"]
               @@ [similarity |-> calculateMessageSimilarity(op.content, op.prompt)]
    /\ UNCHANGED <<Request, history, clock>>

NextSimilarity ==
    \/ FilterMessage
    \/ CalculateMessageSimilarity

SpecSimilarity == InitSimilarity /\ [][NextSimilarity]_vars

\* the words of a text: its maximal pieces without whitespace, case-folded
WordSet(text) ==
    LET t == ToLowerCase(text)
        pieces == {r \in (1..Len(t)) \X (1..Len(t)) :
                     /\ r[1] <= r[2]
                     /\ \A k \in r[1]..r[2] : ~IsWhitespace(t[k])
                     /\ r[1] = 1 \/ IsWhitespace(t[r[1] - 1])
                     /\ r[2] = Len(t) \/ IsWhitespace(t[r[2] + 1])}
    IN {SubSeq(t, r[1], r[2]) : r \in pieces}

Compared == op.name \in {"filter", "calculate"}

\* C15: a message and a prompt that share no word get similarity 0 and the
\* message is not taken as similar, also when one or both have no word at all.
C15_NoSharedWordIsZero ==
    (Compared /\ WordSet(op.content) \cap WordSet(op.prompt) = {}) =>
        /\ ~op.similarity.similar
        /\ op.similarity.computed =>
              (op.similarity.num = 0 /\ op.similarity.den > 0)

TimerFires ==
    /\ timer = "armed"
    /\ timer' = "fired"
    /\ UNCHANGED <<pc, response, error, calls, Locals, Stores, Process>>

NextTimer ==
    \/ Next
    \/ TimerFires

SpecTimer == Init /\ [][NextTimer]_vars

\* C17: once the timer has fired while the model call is pending, the call is
\* aborted: the only way the request leaves the call is the generic 500.
C17_TimerAbortsModelCall ==
    [][(pc = "run" /\ timer = "fired" /\ pc' # "run") => response' = ErrorResponse(500)]_vars

\* C30: when the handler has returned its response, whichever it is, the
\* timer armed at entry is pending no more, so that its callback cannot run
\* after the request has completed.
C30_TimerClearedOnExit ==
    pc = "done" => timer # "armed"

\* C18: the steps follow the stated order: when the vector search is issued
\* the history of the key has been loaded or, being empty, seeded; and the
\* model is invoked only after the search has completed and the prompt's line
\* has been written.
C18_LinearOrder ==
    /\ pc \in {"openIndex", "similaritySearch"} =>
          (Len(records) > 0 \/ calls["exists"] > 0)
    /\ calls["run"] > 0 =>
          (calls["zrange"] > 0 /\ calls["userZadd"] > 0
              /\ pc \notin {"openIndex", "similaritySearch"})

\* C19: writeToHistory appends: every call on a well-formed key adds one entry
\* to the history of the key, whether or not its text is already there.
C19_WriteAppends ==
    (op.name = "write" /\ ~KeySetIncorrectly(op.companionKey)) =>
        LET key == generateRedisCompanionKey(op.companionKey)
        IN Cardinality(EntriesOf(history, key))
              = Cardinality(EntriesOf(op.before, key)) + 1

(***************************************************************************)
(* MemoryManager.getInstance() under concurrent requests of one process.   *)
(* A request runs from one await to the next without interruption; the     *)
(* other requests run at its awaits. Instances are numbered in the order   *)
(* of their construction, 0 standing for no instance.                      *)
(***************************************************************************)
Callers == 1..MaxCallers

\* a test that never finds the instance
NeverHasInstance(i) == FALSE

\* MemoryManager.instance, or memoryManagerInstance, is set
HasInstance(i) == i # 0

\* configured says whether the constructor finds its environment, without
\* which the clients it builds throw; handler is the revision deployed
InitInstance ==
    /\ NoRequest
    /\ \E configured \in BOOLEAN, handler \in {"route", "parallel"} :
         op = [name |-> "getInstance", configured |-> configured,
               handler |-> handler,
               at |-> [c \in Callers |-> "idle"],
               got |-> [c \in Callers |-> 0],
               instance |-> 0, cache |-> 0, constructed |-> 0, created |-> 0]

\* a request reaches its call: the test of the module-level cache in the
\* parallelised handler, then getInstance() up to its first await
EnterGetInstance ==
    /\ op.name = "getInstance"
    /\ \E c \in Callers :
         /\ op.at[c] = "idle"
         /\ op' = IF op.handler = "parallel" /\ HasInstance(op.cache)
                  THEN [op EXCEPT !.at[c] = "done", !.got[c] = op.cache]
                  ELSE IF HasInstance(op.instance)
                  THEN [op EXCEPT !.at[c] = "resolved", !.got[c] = op.instance]
                  ELSE IF op.configured
                  THEN [op EXCEPT !.at[c] = "init",
                                  !.constructed = @ + 1,
                                  !.created = @ + 1,
                                  !.instance = op.created + 1]
                  ELSE [op EXCEPT !.at[c] = "failed", !.constructed = @ + 1]
    /\ UNCHANGED <<Request, history, clock>>

\* getInstance() after await MemoryManager.instance.init()
AfterInit ==
    /\ op.name = "getInstance"
    /\ \E c \in Callers :
         /\ op.at[c] = "init"
         /\ op' = [op EXCEPT !.at[c] = "resolved", !.got[c] = op.instance]
    /\ UNCHANGED <<Request, history, clock>>

\* the request after its await of getInstance(): the parallelised handler
\* stores what it got in its cache
ResumeCaller ==
    /\ op.name = "getInstance"
    /\ \E c \in Callers :
         /\ op.at[c] = "resolved"
         /\ op' = IF op.handler = "parallel"
                  THEN [op EXCEPT !.at[c] = "done", !.cache = op.got[c]]
                  ELSE [op EXCEPT !.at[c] = "done"]
    /\ UNCHANGED <<Request, history, clock>>

NextInstance ==
    \/ EnterGetInstance
    \/ AfterInit
    \/ ResumeCaller

SpecInstance == InitInstance /\ [][NextInstance]_vars

\* every call that has resolved got the instance, and the cache holds nothing
\* else
SameInstance ==
    /\ \A c \in Callers : op.got[c] # 0 => op.got[c] = op.instance
    /\ op.cache # 0 => op.cache = op.instance

\* C20 as stated: under any interleaving the constructor runs at most once,
\* every call resolves to the same instance and the cache of the parallelised
\* handler holds no other.
C20_ConstructorRunsOnce ==
    op.name = "getInstance" => (op.constructed <= 1 /\ SameInstance)

\* C20: under any interleaving at most one MemoryManager is ever constructed,
\* the constructor running once when it does not throw; every call that
\* resolves, resolves to that instance and the cache holds no other.
C20_SingleInstance ==
    op.name = "getInstance" =>
        /\ op.created <= 1
        /\ op.configured => op.constructed <= 1
        /\ SameInstance

C20_Witness ==
    /\ op.name = "getInstance"
    /\ op.handler = "parallel"
    /\ op.constructed = 1
    /\ \E c, d, e \in Callers :
         /\ op.at[c] = "init"
         /\ op.at[d] = "done" /\ op.got[d] = op.instance
         /\ op.at[e] = "done" /\ op.got[e] = op.cache /\ e # d
    /\ op.cache = op.instance

(***************************************************************************)
(* The repetition signal of a request: the window of recent messages the   *)
(* lookup includes, the messages of it the detector of the revision takes  *)
(* as similar, and what the prompt shows of them. The table holds the rows *)
(* of persona c in the order of their creation.                            *)
(***************************************************************************)
\* the verdict of the detector of the revision on one message
Similar(r, msgContent, promptText) ==
    IF r = "parallel" THEN calculateMessageSimilarity(msgContent, promptText).similar
    ELSE FilterSimilar(msgContent, promptText).similar

\* recentMessages.map((m) => `${m.role}: ${m.content}`).join("\n")
PreviousMessages(recent) ==
    Join([i \in 1..Len(recent) |->
             recent[i].role \o <<":", SP>> \o recent[i].content], <<NL>>)

\* recentMessages, isRepetitive, lastResponse and the prompt's lines built of them
Signal(r, table, companionId, userId, promptText) ==
    LET recent == IncludedMessages(r, table, companionId, userId)
        similarMessages == SelectSeq(recent, LAMBDA msg :
                               Similar(r, msg.content, promptText))
    IN [recentMessages |-> recent,
        isRepetitive |-> Len(similarMessages) > 0,
        lastResponse |-> IF Len(similarMessages) > 0
                         THEN similarMessages[1].content ELSE <<>>,
        previous |-> PreviousMessages(recent)]

\* the role of a row as text
UserRole == <<"u", "s", "e", "r">>

\* a row of persona c
Rows ==
    {Message(text, UserRole, userId, <<"c">>) :
        text \in {<<"a">>, <<"A">>, <<"b">>}, userId \in {<<"u">>, <<"v">>}}

RowSeqs(n) == UNION {[1..k -> Rows] : k \in 0..n}

\* n rows the requesting user stored in between
Fillers(n) == [i \in 1..n |-> Message(<<"b">>, UserRole, <<"u">>, <<"c">>)]

\* the rows with the time of their creation
Stamped(rows) == [i \in 1..Len(rows) |-> rows[i] @@ [createdAt |-> i]]

InitSignal ==
    /\ Idle
    /\ rev \in Revisions
    /\ history = {}
    /\ instance = FALSE
    /\ cached = FALSE
    /\ clock = StartTime
    /\ \E old \in RowSeqs(1), new \in RowSeqs(MaxRows), n \in {0, Take(rev)} :
         messages = Stamped(old \o Fillers(n) \o new)
    /\ before = [history |-> {}, messages |-> messages]
    /\ \E promptText \in Prompts :
         op = [name |-> "none", prompt |-> promptText, userId |-> <<"u">>]

\* the lookup and the filter over companion.messages
ComputeSignal ==
    /\ op.name = "none"
    /\ op' = [op EXCEPT !.name = "signal"]
               @@ [signal |-> Signal(rev, messages, <<"c">>, op.userId, op.prompt)]
    /\ UNCHANGED <<Request, history, clock>>

NextSignal == ComputeSignal

SpecSignal == InitSignal /\ [][NextSignal]_vars

\* C21: the signal of a request is the one it would have if no other user had
\* stored a message for the persona: the window holds rows of the requesting
\* user only, and the flag, the previous response and the prompt's lines are
\* the same in both runs.
C21_SignalIgnoresOtherUsers ==
    op.name = "signal" =>
        LET own == SelectSeq(messages, LAMBDA m : m.userId = op.userId)
        IN /\ \A i \in 1..Len(op.signal.recentMessages) :
                 op.signal.recentMessages[i].userId = op.userId
           /\ op.signal = Signal(rev, own, <<"c">>, op.userId, op.prompt)

\* C23: the previous response is the content of the most recently created
\* message of the window that the detector takes as similar; with no such
\* message it is empty and the request is not flagged.
C23_LastResponseIsNewestMatch ==
    op.name = "signal" =>
        LET recent == op.signal.recentMessages
            matches == {i \in 1..Len(recent) : Similar(rev, recent[i].content, op.prompt)}
        IN IF matches = {}
           THEN ~op.signal.isRepetitive /\ op.signal.lastResponse = <<>>
           ELSE /\ op.signal.isRepetitive
                /\ \E i \in matches :
                      /\ op.signal.lastResponse = recent[i].content
                      /\ \A j \in matches : recent[j].createdAt <= recent[i].createdAt

C23_Witness ==
    /\ op.name = "signal"
    /\ op.signal.isRepetitive
    /\ op.signal.lastResponse = <<"A">>
    /\ \E i, j \in 1..Len(messages) :
         /\ i < j
         /\ messages[i].content = <<"a">>
         /\ messages[j].content = <<"A">>
         /\ messages[i] \in {op.signal.recentMessages[k] : k \in 1..Len(op.signal.recentMessages)}

\* C22: the filter of route.ts and calculateMessageSimilarity give the same
\* verdict on every pair of message and prompt.
C22_DetectorsAgree ==
    Compared =>
        FilterSimilar(op.content, op.prompt).similar
            = calculateMessageSimilarity(op.content, op.prompt).similar

\* the request is past the companion lookup and has not ended
PastLookup == PcRank(pc) >= PcRank("getInstance") /\ pc # "done"

\* C24: a request that has passed the companion lookup has stored its prompt
\* as a row with role user, owned by the caller and attached to the persona,
\* and its window of recent messages is the one of the table as it was before
\* that row.
C24_PromptRowBeforeSignal ==
    (PastLookup /\ calls["update"] = 0) =>
        /\ Len(messages) = Len(before.messages) + 1
        /\ messages[Len(messages)] = Message(prompt, "user", caller.id, chatId)
        /\ recentMessages = IncludedMessages(rev, before.messages, chatId, caller.id)

\* the model call of the request failed
ModelFailed == pc = "done" /\ error = "run"

\* C25: when the model call fails, the request ends with 500; the user's line
\* and every seed piece this request wrote are in the history, nothing that
\* was in either store before the request is gone, and no response line and
\* no response row has been written.
C25_NoRollbackOnModelFailure ==
    ModelFailed =>
        /\ response = ErrorResponse(500)
        /\ \E e \in history :
              e.key = RequestKey /\ e.member = UserLine(prompt) /\ e.score >= StartTime
        /\ \A i \in 1..counter :
              \E e \in history : e.key = RequestKey /\ e.member = content[i]
        /\ \A e \in before.history :
              \E f \in history : f.key = e.key /\ f.member = e.member
        /\ SubSeq(messages, 1, Len(before.messages)) = before.messages
        /\ Len(messages) = Len(before.messages) + calls["create"]
        /\ calls["responseZadd"] = 0
        /\ calls["update"] = 0
        /\ \A e \in history \ before.history :
              e.score < StartTime \/ e.member = UserLine(prompt)

C25_Witness ==
    /\ ModelFailed
    /\ calls["seedZadd"] = 2
    /\ calls["userZadd"] = 1
    /\ Cardinality(history) > Cardinality(before.history) + 1

\* the response line of the request is in the history
ResponseLineWritten ==
    /\ calls["responseZadd"] = 1
    /\ Entry(RequestKey, Trim(finalResponse), clock - 1) \in history

\* the response row of the request is in the table
ResponseRowWritten ==
    /\ calls["update"] = 1
    /\ Len(messages) = Len(before.messages) + calls["create"] + 1
    /\ messages[Len(messages)] = Message(Trim(finalResponse), "system", caller.id, chatId)

\* C28 as stated: after a request the response line is in the history if and
\* only if the response row is in the table.
C28_ResponseWritesAtomic ==
    pc = "done" => (ResponseLineWritten <=> ResponseRowWritten)

\* C28: after a request that streamed its response the line is in the history
\* if and only if the row is in the table; one of the two without the other is
\* left only by a request that ended in 500 because the other write failed.
C28_ResponseWritesAgreeUnlessFailed ==
    pc = "done" =>
        /\ response.status = 200 => (ResponseLineWritten <=> ResponseRowWritten)
        /\ calls["responseZadd"] = 0 => (~ResponseLineWritten /\ ~ResponseRowWritten)
        /\ (ResponseLineWritten /\ ~ResponseRowWritten) =>
              (response = ErrorResponse(500) /\ error = "update")
        /\ (ResponseRowWritten /\ ~ResponseLineWritten) =>
              (response = ErrorResponse(500) /\ error = "responseZadd")

C28_Witness ==
    /\ pc = "done"
    /\ ResponseLineWritten
    /\ ~ResponseRowWritten
    /\ response = ErrorResponse(500)

(***************************************************************************)
(* truncateText of vectorSearch. A text is a sequence of UTF-16 code       *)
(* units: "a" stands for a unit TextEncoder encodes in 1 byte, "e" in 2,   *)
(* "E" in 3, "H" and "L" for a high and a low surrogate, which make 4      *)
(* bytes as a pair and 3 bytes each (U+FFFD) when alone.                   *)
(***************************************************************************)
\* maxBytes: number = 9700
DEFAULT_MAX_BYTES == 9700

\* encoder.encode(s).length
EncodedLength(s) ==
    LET at(c) == {i \in 1..Len(s) : s[i] = c}
        pairs == {i \in at("H") : i < Len(s) /\ s[i + 1] = "L"}
        paired == pairs \cup {i + 1 : i \in pairs}
        lone == (at("H") \cup at("L")) \ paired
    IN Cardinality(at("a")) + 2 * Cardinality(at("e")) + 3 * Cardinality(at("E"))
           + 4 * Cardinality(pairs) + 3 * Cardinality(lone)

\* a test that leaves no room for the last byte
FitsStrictly(bytes, maxBytes) == bytes < maxBytes

\* encoder.encode(...).length <= maxBytes
Fits(bytes, maxBytes) == bytes <= maxBytes

CodeUnits == {"a", "e", "E", "H", "L"}

\* a history that leaves three bytes of the default budget, followed by tail
LongText(tail) == [i \in 1..(DEFAULT_MAX_BYTES - 3) |-> "a"] \o tail

InitTruncate ==
    /\ NoRequest
    /\ \/ \E text \in Texts(CodeUnits, MaxChars), maxBytes \in 0..MaxBudget :
            op = [name |-> "call", text |-> text, maxBytes |-> maxBytes]
       \/ \E tail \in Texts(CodeUnits, MaxChars - 1) :
            op = [name |-> "call", text |-> LongText(tail),
                  maxBytes |-> DEFAULT_MAX_BYTES]

\* truncateText up to its loop: a text that fits is returned as it is
TruncateEnter ==
    /\ op.name = "call"
    /\ op' = IF Fits(EncodedLength(op.text), op.maxBytes)
             THEN [name |-> "returned", text |-> op.text, maxBytes |-> op.maxBytes,
                   steps |-> 0, result |-> op.text]
             ELSE [name |-> "loop", text |-> op.text, maxBytes |-> op.maxBytes,
                   steps |-> 0, start |-> 0, end |-> Len(op.text)]
    /\ UNCHANGED <<Request, history, clock>>

\* one turn of while (start < end - 1)
TruncateStep ==
    /\ op.name = "loop"
    /\ op.start < op.end - 1
    /\ LET mid == (op.start + op.end) \div 2
       IN op' = IF Fits(EncodedLength(SubSeq(op.text, 1, mid)), op.maxBytes)
                THEN [op EXCEPT !.start = mid, !.steps = @ + 1]
                ELSE [op EXCEPT !.end = mid, !.steps = @ + 1]
    /\ UNCHANGED <<Request, history, clock>>

\* return text.slice(0, start)
TruncateReturn ==
    /\ op.name = "loop"
    /\ ~(op.start < op.end - 1)
    /\ op' = [name |-> "returned", text |-> op.text, maxBytes |-> op.maxBytes,
              steps |-> op.steps, result |-> SubSeq(op.text, 1, op.start)]
    /\ UNCHANGED <<Request, history, clock>>

NextTruncate ==
    \/ TruncateEnter
    \/ TruncateStep
    \/ TruncateReturn

SpecTruncate == InitTruncate /\ [][NextTruncate]_vars

\* C26: truncateText returns the text itself when it fits the budget, else its
\* longest prefix that fits, the empty one when the first code unit does not;
\* what it returns never exceeds the budget, and the search ends, every turn
\* of its loop narrowing the interval.
C26_LongestPrefixThatFits ==
    /\ op.name = "loop" =>
          /\ 0 <= op.start /\ op.start < op.end /\ op.end <= Len(op.text)
          /\ op.steps + (op.end - op.start) <= Len(op.text)
    /\ op.name = "returned" =>
          LET n == Len(op.result)
          IN /\ op.steps <= Len(op.text)
             /\ EncodedLength(op.result) <= op.maxBytes
             /\ n <= Len(op.text)
             /\ op.result = SubSeq(op.text, 1, n)
             /\ \A j \in (n + 1)..Len(op.text) :
                   EncodedLength(SubSeq(op.text, 1, j)) > op.maxBytes

C26_Witness ==
    /\ op.name = "returned"
    /\ op.maxBytes = DEFAULT_MAX_BYTES
    /\ op.steps > 1
    /\ EncodedLength(op.result) = DEFAULT_MAX_BYTES
    /\ Len(op.result) < Len(op.text)
    /\ op.result[Len(op.result)] = "H"

(***************************************************************************)
(* The memory steps of requests that user u sends to persona c while       *)
(* others of them are in flight: each request runs from one await to the   *)
(* next, and the store serves one command at a time.                       *)
(***************************************************************************)
InFlight == 1..MaxInFlight

\* companion.seed.split("\n\n") of persona c
SeedPieces == Split(FindCompanion(<<"c">>).seed, <<NL, NL>>)

InitSeeding ==
    /\ NoRequest
    /\ op = [name |-> "seeding",
             at |-> [r \in InFlight |-> "read"],
             counter |-> [r \in InFlight |-> 0]]

\* const [records, similarDocs] = await Promise.all([...]) and the test
\* records.length === 0
ReadRecords ==
    /\ \E r \in InFlight :
         /\ op.at[r] = "read"
         /\ op' = [op EXCEPT !.at[r] =
                      IF Len(readLatestHistory(history, EarlierKey, clock)) = 0
                      THEN "exists" ELSE "past"]
    /\ UNCHANGED <<Request, history, clock>>

\* seedChatHistory: if (await this.history.exists(key)) return
SeedTestsExists ==
    /\ \E r \in InFlight :
         /\ op.at[r] = "exists"
         /\ op' = [op EXCEPT !.at[r] =
                      IF Exists(history, generateRedisCompanionKey(EarlierKey))
                      THEN "past" ELSE "loop"]
    /\ UNCHANGED <<Request, history, clock>>

\* seedChatHistory: one zadd of the loop, which the store may refuse; the
\* request then ends in the catch block
SeedWrites ==
    /\ \E r \in InFlight :
         /\ op.at[r] = "loop"
         /\ \/ /\ history' = Zadd(history, generateRedisCompanionKey(EarlierKey),
                                  op.counter[r], SeedPieces[op.counter[r] + 1])
               /\ op' = [op EXCEPT !.counter[r] = @ + 1,
                                   !.at[r] = IF op.counter[r] + 1 >= Len(SeedPieces)
                                             THEN "past" ELSE "loop"]
            \/ /\ history' = history
               /\ op' = [op EXCEPT !.at[r] = "failed"]
    /\ UNCHANGED <<Request, clock>>

\* writeToHistory(`User: ${prompt}\n`, companionKey) after the seeding step
WritesUserLine ==
    /\ \E r \in InFlight, p \in Prompts :
         /\ op.at[r] = "past"
         /\ history' = writeToHistory(history, UserLine(p), EarlierKey, clock)
         /\ op' = [op EXCEPT !.at[r] = "done"]
    /\ clock' = clock + 1
    /\ UNCHANGED Request

NextSeeding ==
    \/ ReadRecords
    \/ SeedTestsExists
    \/ SeedWrites
    \/ WritesUserLine

SpecSeeding == InitSeeding /\ [][NextSeeding]_vars

\* C27: once a request on the key is past its seeding step, every piece of the
\* persona's seed is in the history of the key.
C27_SeededOncePast ==
    (op.name = "seeding" /\ \E r \in InFlight : op.at[r] \in {"past", "done"}) =>
        \A i \in 1..Len(SeedPieces) :
            \E e \in history :
                /\ e.key = generateRedisCompanionKey(EarlierKey)
                /\ e.member = SeedPieces[i]

(***************************************************************************)
(* Two CompanionKeys whose identifiers may contain hyphens: a write under  *)
(* the one, then a read under the other.                                   *)
(***************************************************************************)
Idents == Texts({"a", HYPHEN}, MaxIdent) \ {<<>>}

ModelNames == {<<"a">>, <<"a", HYPHEN, "a">>}

CompanionKeys ==
    {[companionName |-> c, userId |-> u, modelName |-> m] :
        c \in Idents, u \in Idents, m \in ModelNames}

InitKeys ==
    /\ NoRequest
    /\ \E writer \in CompanionKeys, reader \in CompanionKeys :
         op = [name |-> "keys", writer |-> writer, reader |-> reader]

\* await writeToHistory(text, writer)
KeyWrite ==
    /\ op.name = "keys"
    /\ \E text \in WriteTexts :
         /\ history' = writeToHistory(history, text, op.writer, clock)
         /\ op' = [op EXCEPT !.name = "written"] @@ [text |-> text]
    /\ clock' = clock + 1
    /\ UNCHANGED Request

\* await readLatestHistory(reader)
KeyRead ==
    /\ op.name = "written"
    /\ op' = [op EXCEPT !.name = "readBack"]
               @@ [result |-> readLatestHistory(history, op.reader, clock)]
    /\ UNCHANGED <<Request, history, clock>>

NextKeys ==
    \/ KeyWrite
    \/ KeyRead

SpecKeys == InitKeys /\ [][NextKeys]_vars

\* C29: two CompanionKeys that differ in a field have different store keys,
\* and what is written under the one is not read under the other.
C29_KeysInjective ==
    (op.name \in {"keys", "written", "readBack"} /\ op.writer # op.reader) =>
        /\ generateRedisCompanionKey(op.writer) # generateRedisCompanionKey(op.reader)
        /\ op.name = "readBack" => op.result = <<>>

====
